---- MODULE Spec2Model ----
(***************************************************************************)
(* Lineage graph of grasskode/synq-graphs (graph.go): a map of nodes keyed *)
(* by path, each node holding its immediate upstream and downstream        *)
(* neighbour lists, built by insert and queried by upstream / downstream.  *)
(*                                                                         *)
(* Paths are Go strings that the code only ever compares for equality and  *)
(* uses as map keys, so a path is modelled as an opaque identifier drawn   *)
(* from 1..NumPaths.                                                       *)
(***************************************************************************)
EXTENDS Integers, Sequences, FiniteSets, TLC

\* Bounds of the model.
NumPaths == 3
MaxInserts == 2
MaxSeeds == 2

Paths == 1..NumPaths

\* The seed lists a caller may pass: every list of at most MaxSeeds paths,
\* the empty list and lists with repeated paths included.
SeedLists == UNION {[1..n -> Paths] : n \in 0..MaxSeeds}

VARIABLES
    nodes,      \* Graph.nodes: path -> Node (a function whose domain is the key set)
    inserted,   \* history: the set of <<from, to>> pairs insert was called with
    ninserts,   \* history: the number of insert calls made so far
    call,       \* the last call made on the graph, with what it returned
    run         \* the traversal loop in progress (LoopSpec only)

vars == <<nodes, inserted, ninserts, call, run>>

Range(s) == {s[i] : i \in 1..Len(s)}

\* The orders in which ranging over a Go map whose key set is S can yield
\* its keys: every enumeration of S without repetition.
Orderings(S) ==
    {s \in [1..Cardinality(S) -> S] : \A i, j \in 1..Cardinality(S) : s[i] = s[j] => i = j}

----------------------------------------------------------------------------
\* type Node struct { path; upstream; downstream }, as getOrCreate builds it.
NewNode(path) == [path |-> path, upstream |-> <<>>, downstream |-> <<>>]

\* The error values upstream / downstream return.
NilError == [kind |-> "nil"]
MissingNodeError(path) == [kind |-> "MissingNodeError", path |-> path]

\* func contains(s []string, str string) bool
contains(s, str) == \E i \in 1..Len(s) : s[i] = str

\* A variant of getOrCreate that registers a new node whether or not the
\* path has one.
getOrCreateAlwaysNew(g, path) ==
    [p \in DOMAIN g \cup {path} |-> IF p = path THEN NewNode(path) ELSE g[p]]

\* func (g *Graph) getOrCreate(path string) *Node, as the map it leaves.
getOrCreate(g, path) ==
    IF path \in DOMAIN g
    THEN g
    ELSE [p \in DOMAIN g \cup {path} |-> IF p \in DOMAIN g THEN g[p] ELSE NewNode(path)]

\* A variant of insert that appends without consulting contains.
insertNoDedup(g, from, to) ==
    LET g1 == getOrCreate(g, from)
        g2 == getOrCreate(g1, to)
        g3 == [g2 EXCEPT ![from].downstream = Append(@, to)]
    IN  [g3 EXCEPT ![to].upstream = Append(@, from)]

\* A variant of insert whose duplicate tests read the opposite lists.
insertWrongList(g, from, to) ==
    LET g1 == getOrCreate(g, from)
        g2 == getOrCreate(g1, to)
        g3 == IF ~contains(g2[from].upstream, to)
              THEN [g2 EXCEPT ![from].downstream = Append(@, to)]
              ELSE g2
    IN  IF ~contains(g3[to].downstream, from)
        THEN [g3 EXCEPT ![to].upstream = Append(@, from)]
        ELSE g3

\* A variant of insert that records the edge on the from node only.
insertOneSided(g, from, to) ==
    LET g1 == getOrCreate(g, from)
        g2 == getOrCreate(g1, to)
    IN  IF ~contains(g2[from].downstream, to)
        THEN [g2 EXCEPT ![from].downstream = Append(@, to)]
        ELSE g2

\* A variant of insert that creates the from node only when the edge is new
\* to it and never creates the to node.
insertNoTarget(g, from, to) ==
    LET g1 == getOrCreate(g, from)
        g3 == IF ~contains(g1[from].downstream, to)
              THEN [g1 EXCEPT ![from].downstream = Append(@, to)]
              ELSE g1
    IN  IF to \in DOMAIN g3 /\ ~contains(g3[to].upstream, from)
        THEN [g3 EXCEPT ![to].upstream = Append(@, from)]
        ELSE g3

\* A variant of insert that ignores an edge from a path to itself.
insertRejectSelf(g, from, to) ==
    IF from = to
    THEN g
    ELSE LET g1 == getOrCreate(g, from)
             g2 == getOrCreate(g1, to)
             g3 == IF ~contains(g2[from].downstream, to)
                   THEN [g2 EXCEPT ![from].downstream = Append(@, to)]
                   ELSE g2
         IN  IF ~contains(g3[to].upstream, from)
             THEN [g3 EXCEPT ![to].upstream = Append(@, from)]
             ELSE g3

\* A variant of insert that records the edge in both directions.
insertBothWays(g, from, to) ==
    LET g1 == getOrCreate(g, from)
        g2 == getOrCreate(g1, to)
        g3 == IF ~contains(g2[from].downstream, to)
              THEN [g2 EXCEPT ![from].downstream = Append(@, to)]
              ELSE g2
        g4 == IF ~contains(g3[to].upstream, from)
              THEN [g3 EXCEPT ![to].upstream = Append(@, from)]
              ELSE g3
        g5 == IF ~contains(g4[to].downstream, from)
              THEN [g4 EXCEPT ![to].downstream = Append(@, from)]
              ELSE g4
    IN  IF ~contains(g5[from].upstream, to)
        THEN [g5 EXCEPT ![from].upstream = Append(@, to)]
        ELSE g5

\* func (g *Graph) insert(from string, to string), as the map it leaves.
\* fromNode and toNode are pointers into the map, the same pointer when
\* from = to, so the second test reads what the first append wrote.
insert(g, from, to) ==
    LET g1 == getOrCreate(g, from)
        g2 == getOrCreate(g1, to)
        g3 == IF ~contains(g2[from].downstream, to)
              THEN [g2 EXCEPT ![from].downstream = Append(@, to)]
              ELSE g2
    IN  IF ~contains(g3[to].upstream, from)
        THEN [g3 EXCEPT ![to].upstream = Append(@, from)]
        ELSE g3

----------------------------------------------------------------------------
\* The locals of upstream / downstream on entry: the work queue is the
\* caller's list, found and processed are empty.
startLoop(paths) ==
    [paths |-> paths, found |-> {}, processed |-> <<>>, pc |-> "loop", err |-> NilError]

\* A variant of the upstream loop body that consults the downstream list.
upstreamStepWrongDirection(g, st) ==
    IF Len(st.paths) = 0
    THEN [st EXCEPT !.pc = "break"]
    ELSE LET path == Head(st.paths)
             rest == Tail(st.paths)
         IN  IF contains(st.processed, path)
             THEN [st EXCEPT !.paths = rest]
             ELSE IF path \notin DOMAIN g
             THEN [st EXCEPT !.paths = rest, !.pc = "error", !.err = MissingNodeError(path)]
             ELSE [st EXCEPT !.paths = rest \o g[path].downstream,
                             !.found = @ \cup Range(g[path].downstream),
                             !.processed = Append(@, path)]

\* A variant of the upstream loop body that records a path it skips as found.
upstreamStepSkipFound(g, st) ==
    IF Len(st.paths) = 0
    THEN [st EXCEPT !.pc = "break"]
    ELSE LET path == Head(st.paths)
             rest == Tail(st.paths)
         IN  IF contains(st.processed, path)
             THEN [st EXCEPT !.paths = rest, !.found = @ \cup {path}]
             ELSE IF path \notin DOMAIN g
             THEN [st EXCEPT !.paths = rest, !.pc = "error", !.err = MissingNodeError(path)]
             ELSE [st EXCEPT !.paths = rest \o g[path].upstream,
                             !.found = @ \cup Range(g[path].upstream),
                             !.processed = Append(@, path)]

\* A variant of the upstream loop body that tests processed before it takes
\* the path off the queue, so a skipped path stays at the head.
upstreamStepSkipKeepsHead(g, st) ==
    IF Len(st.paths) = 0
    THEN [st EXCEPT !.pc = "break"]
    ELSE LET path == Head(st.paths)
             rest == Tail(st.paths)
         IN  IF contains(st.processed, path)
             THEN st
             ELSE IF path \notin DOMAIN g
             THEN [st EXCEPT !.paths = rest, !.pc = "error", !.err = MissingNodeError(path)]
             ELSE [st EXCEPT !.paths = rest \o g[path].upstream,
                             !.found = @ \cup Range(g[path].upstream),
                             !.processed = Append(@, path)]

\* A variant of the upstream loop body that records the path it expands as
\* found along with its neighbours.
upstreamStepSelfFound(g, st) ==
    IF Len(st.paths) = 0
    THEN [st EXCEPT !.pc = "break"]
    ELSE LET path == Head(st.paths)
             rest == Tail(st.paths)
         IN  IF contains(st.processed, path)
             THEN [st EXCEPT !.paths = rest]
             ELSE IF path \notin DOMAIN g
             THEN [st EXCEPT !.paths = rest, !.pc = "error", !.err = MissingNodeError(path)]
             ELSE [st EXCEPT !.paths = rest \o g[path].upstream,
                             !.found = @ \cup Range(g[path].upstream) \cup {path},
                             !.processed = Append(@, path)]

\* One pass through the for loop of upstream.
upstreamStep(g, st) ==
    IF Len(st.paths) = 0
    THEN [st EXCEPT !.pc = "break"]
    ELSE LET path == Head(st.paths)
             rest == Tail(st.paths)
         IN  IF contains(st.processed, path)
             THEN [st EXCEPT !.paths = rest]
             ELSE IF path \notin DOMAIN g
             THEN [st EXCEPT !.paths = rest, !.pc = "error", !.err = MissingNodeError(path)]
             ELSE [st EXCEPT !.paths = rest \o g[path].upstream,
                             !.found = @ \cup Range(g[path].upstream),
                             !.processed = Append(@, path)]

\* A variant of the downstream loop body that records the neighbours as
\* found without queueing them.
downstreamStepShallow(g, st) ==
    IF Len(st.paths) = 0
    THEN [st EXCEPT !.pc = "break"]
    ELSE LET path == Head(st.paths)
             rest == Tail(st.paths)
         IN  IF contains(st.processed, path)
             THEN [st EXCEPT !.paths = rest]
             ELSE IF path \notin DOMAIN g
             THEN [st EXCEPT !.paths = rest, !.pc = "error", !.err = MissingNodeError(path)]
             ELSE [st EXCEPT !.paths = rest,
                             !.found = @ \cup Range(g[path].downstream),
                             !.processed = Append(@, path)]

\* A variant of the downstream loop body that skips a path without a node
\* instead of returning the error.
downstreamStepSkipMissing(g, st) ==
    IF Len(st.paths) = 0
    THEN [st EXCEPT !.pc = "break"]
    ELSE LET path == Head(st.paths)
             rest == Tail(st.paths)
         IN  IF contains(st.processed, path)
             THEN [st EXCEPT !.paths = rest]
             ELSE IF path \notin DOMAIN g
             THEN [st EXCEPT !.paths = rest]
             ELSE [st EXCEPT !.paths = rest \o g[path].downstream,
                             !.found = @ \cup Range(g[path].downstream),
                             !.processed = Append(@, path)]

\* A variant of the downstream loop body that takes found, not processed,
\* as the set of paths already expanded.
downstreamStepFoundAsVisited(g, st) ==
    IF Len(st.paths) = 0
    THEN [st EXCEPT !.pc = "break"]
    ELSE LET path == Head(st.paths)
             rest == Tail(st.paths)
         IN  IF path \in st.found
             THEN [st EXCEPT !.paths = rest]
             ELSE IF path \notin DOMAIN g
             THEN [st EXCEPT !.paths = rest, !.pc = "error", !.err = MissingNodeError(path)]
             ELSE [st EXCEPT !.paths = rest \o g[path].downstream,
                             !.found = @ \cup Range(g[path].downstream),
                             !.processed = Append(@, path)]

\* A variant of the downstream loop body without the processed test.
downstreamStepNoSkip(g, st) ==
    IF Len(st.paths) = 0
    THEN [st EXCEPT !.pc = "break"]
    ELSE LET path == Head(st.paths)
             rest == Tail(st.paths)
         IN  IF path \notin DOMAIN g
             THEN [st EXCEPT !.paths = rest, !.pc = "error", !.err = MissingNodeError(path)]
             ELSE [st EXCEPT !.paths = rest \o g[path].downstream,
                             !.found = @ \cup Range(g[path].downstream),
                             !.processed = Append(@, path)]

\* One pass through the for loop of downstream.
downstreamStep(g, st) ==
    IF Len(st.paths) = 0
    THEN [st EXCEPT !.pc = "break"]
    ELSE LET path == Head(st.paths)
             rest == Tail(st.paths)
         IN  IF contains(st.processed, path)
             THEN [st EXCEPT !.paths = rest]
             ELSE IF path \notin DOMAIN g
             THEN [st EXCEPT !.paths = rest, !.pc = "error", !.err = MissingNodeError(path)]
             ELSE [st EXCEPT !.paths = rest \o g[path].downstream,
                             !.found = @ \cup Range(g[path].downstream),
                             !.processed = Append(@, path)]

RECURSIVE upstreamLoop(_, _)
upstreamLoop(g, st) ==
    IF st.pc # "loop" THEN st ELSE upstreamLoop(g, upstreamStep(g, st))

RECURSIVE downstreamLoop(_, _)
downstreamLoop(g, st) ==
    IF st.pc # "loop" THEN st ELSE downstreamLoop(g, downstreamStep(g, st))

\* A variant of the return that fills the len(found) entries of the result
\* with keys of found without telling them apart.
ReturnsAnyFill(st) ==
    IF st.pc = "error"
    THEN {[result |-> <<>>, resultNil |-> TRUE, err |-> st.err]}
    ELSE {[result |-> r, resultNil |-> FALSE, err |-> NilError] :
             r \in [1..Cardinality(st.found) -> st.found]}

\* What the function returns once its loop has ended in state st: nil and
\* the error, or the keys of found in some map order and a nil error.
Returns(st) ==
    IF st.pc = "error"
    THEN {[result |-> <<>>, resultNil |-> TRUE, err |-> st.err]}
    ELSE {[result |-> r, resultNil |-> FALSE, err |-> NilError] : r \in Orderings(st.found)}

\* func (g *Graph) upstream(paths []string) ([]string, error): the state
\* its loop ends in.
upstream(g, paths) == upstreamLoop(g, startLoop(paths))

\* func (g *Graph) downstream(paths []string) ([]string, error): the state
\* its loop ends in.
downstream(g, paths) == downstreamLoop(g, startLoop(paths))

----------------------------------------------------------------------------
\* run when no traversal is in progress, and call while one is: the call
\* being made is then the one run describes, and it has not returned yet.
Idle == [op |-> "idle"]
Running == [op |-> "running"]

\* graph := &Graph{}: the nodes map is nil, which reads as an empty map.
Init ==
    /\ nodes = [p \in {} |-> NewNode(p)]
    /\ inserted = {}
    /\ ninserts = 0
    /\ call = [op |-> "new"]
    /\ run = Idle

Insert(from, to) ==
    /\ run.op = "idle"
    /\ ninserts < MaxInserts
    /\ nodes' = insert(nodes, from, to)
    /\ inserted' = inserted \cup {<<from, to>>}
    /\ ninserts' = ninserts + 1
    /\ call' = [op |-> "insert", from |-> from, to |-> to]
    /\ UNCHANGED run

\* A variant of upstream that resolves its seeds with getOrCreate, not with
\* a lookup in the map.
RECURSIVE createAll(_, _)
createAll(g, paths) ==
    IF paths = <<>> THEN g ELSE createAll(getOrCreate(g, Head(paths)), Tail(paths))

UpstreamGetOrCreate(seeds) ==
    /\ run.op = "idle"
    /\ nodes' = createAll(nodes, seeds)
    /\ \E ret \in Returns(upstream(nodes', seeds)) :
          call' = [op |-> "upstream", seeds |-> seeds, result |-> ret.result,
                   resultNil |-> ret.resultNil, err |-> ret.err]
    /\ UNCHANGED <<inserted, ninserts, run>>

\* upstream and downstream have no precondition: a query can follow
\* construction, an insert or another query. A query leaves the graph as it
\* is, and the state keeps the last call only.
Upstream(seeds) ==
    /\ run.op = "idle"
    /\ \E ret \in Returns(upstream(nodes, seeds)) :
          call' = [op |-> "upstream", seeds |-> seeds, result |-> ret.result,
                   resultNil |-> ret.resultNil, err |-> ret.err]
    /\ UNCHANGED <<nodes, inserted, ninserts, run>>

Downstream(seeds) ==
    /\ run.op = "idle"
    /\ \E ret \in Returns(downstream(nodes, seeds)) :
          call' = [op |-> "downstream", seeds |-> seeds, result |-> ret.result,
                   resultNil |-> ret.resultNil, err |-> ret.err]
    /\ UNCHANGED <<nodes, inserted, ninserts, run>>

Next ==
    \/ \E from, to \in Paths : Insert(from, to)
    \/ \E seeds \in SeedLists : Upstream(seeds)
    \/ \E seeds \in SeedLists : Downstream(seeds)

Spec == Init /\ [][Next]_vars

----------------------------------------------------------------------------
\* The same calls with the traversal loop taken one pass at a time: Begin is
\* the entry of upstream / downstream, Iterate one pass through its for
\* loop, Return what follows the loop. iters counts the passes made.
Begin(op, seeds) ==
    /\ run.op = "idle"
    /\ run' = [op |-> op, seeds |-> seeds, st |-> startLoop(seeds), iters |-> 0]
    /\ call' = Running
    /\ UNCHANGED <<nodes, inserted, ninserts>>

Iterate ==
    /\ run.op # "idle"
    /\ run.st.pc = "loop"
    /\ run' = [run EXCEPT !.st = IF run.op = "upstream" THEN upstreamStep(nodes, @)
                                                        ELSE downstreamStep(nodes, @),
                          !.iters = @ + 1]
    /\ UNCHANGED <<nodes, inserted, ninserts, call>>

Return ==
    /\ run.op # "idle"
    /\ run.st.pc # "loop"
    /\ \E ret \in Returns(run.st) :
          call' = [op |-> run.op, seeds |-> run.seeds, result |-> ret.result,
                   resultNil |-> ret.resultNil, err |-> ret.err]
    /\ run' = Idle
    /\ UNCHANGED <<nodes, inserted, ninserts>>

NextLoop ==
    \/ \E from, to \in Paths : Insert(from, to)
    \/ \E op \in {"upstream", "downstream"}, seeds \in SeedLists : Begin(op, seeds)
    \/ Iterate
    \/ Return

\* The calls are synchronous and single-threaded: a call that has begun
\* keeps executing, so a pass or a return that can be made is made.
LoopSpec == Init /\ [][NextLoop]_vars /\ WF_vars(Iterate) /\ WF_vars(Return)

----------------------------------------------------------------------------
\* Reference notions the properties are stated with, defined on the history
\* of inserted edges and not on the node lists.

\* The paths one edge of E away from a path in X.
Succ(E, X) == {e[2] : e \in {d \in E : d[1] \in X}}

RECURSIVE Closure(_, _)
Closure(E, X) ==
    LET Y == X \cup Succ(E, X) IN IF Y = X THEN X ELSE Closure(E, Y)

\* The paths reachable from a path in S by one or more edges of E.
ReachFrom(E, S) == Closure(E, Succ(E, S))

\* E with every edge reversed.
Rev(E) == {<<e[2], e[1]>> : e \in E}

Acyclic(E) == \A p \in Paths : p \notin ReachFrom(E, {p})

\* The paths that occurred as the source or the target of an inserted edge.
Endpoints(E) == {e[1] : e \in E} \cup {e[2] : e \in E}

Count(s, x) == Cardinality({i \in 1..Len(s) : s[i] = x})

NoDup(s) == \A i, j \in 1..Len(s) : s[i] = s[j] => i = j

IsQuery == call.op \in {"upstream", "downstream"}

SeedsHaveNodes == \A i \in 1..Len(call.seeds) : call.seeds[i] \in DOMAIN nodes

RECURSIVE insertTimes(_, _, _, _)
insertTimes(g, from, to, n) ==
    IF n = 0 THEN g ELSE insertTimes(insert(g, from, to), from, to, n - 1)

----------------------------------------------------------------------------
\* C1: on an acyclic graph built by inserts, downstream of seeds that all
\* have nodes returns no error and exactly the paths reachable from some
\* seed by one or more edges; a single seed is not in its own result.
C1_DownstreamClosure ==
    (call.op = "downstream" /\ Acyclic(inserted) /\ SeedsHaveNodes) =>
        /\ call.err = NilError
        /\ ~call.resultNil
        /\ Range(call.result) = ReachFrom(inserted, Range(call.seeds))
        /\ Len(call.seeds) = 1 => call.seeds[1] \notin Range(call.result)

\* A single-seed downstream query on an acyclic graph returned a path that
\* is no immediate neighbour of the seed.
C1_Witness ==
    /\ call.op = "downstream" /\ Acyclic(inserted) /\ SeedsHaveNodes
    /\ Len(call.seeds) = 1
    /\ \E p \in Range(call.result) : ~contains(nodes[call.seeds[1]].downstream, p)

\* C2: on an acyclic graph built by inserts, upstream of seeds that all have
\* nodes returns no error and exactly the paths from which some seed is
\* reachable by one or more edges.
C2_UpstreamClosure ==
    (call.op = "upstream" /\ Acyclic(inserted) /\ SeedsHaveNodes) =>
        /\ call.err = NilError
        /\ ~call.resultNil
        /\ Range(call.result) = ReachFrom(Rev(inserted), Range(call.seeds))

\* A single-seed upstream query on an acyclic graph returned an ancestor
\* that is no immediate neighbour of the seed.
C2_Witness ==
    /\ call.op = "upstream" /\ Acyclic(inserted) /\ SeedsHaveNodes
    /\ Len(call.seeds) = 1
    /\ \E p \in Range(call.result) : ~contains(nodes[call.seeds[1]].upstream, p)

\* C3: from every graph reachable by inserts and for every pair (a, b),
\* inserting (a, b) n >= 1 times in a row leaves the same graph as inserting
\* it once, and inserting an edge already recorded leaves the graph as it is.
\* (Every graph is reached by construction or by an insert, so the graphs
\* are taken where the last call is one of these.)
C3_InsertIdempotent ==
    call.op \in {"new", "insert"} =>
        \A a, b \in Paths :
            /\ \A n \in 1..(MaxInserts + 1) :
                  insertTimes(nodes, a, b, n) = insert(nodes, a, b)
            /\ <<a, b>> \in inserted => insert(nodes, a, b) = nodes

\* The same edge was inserted twice and is recorded once.
C3_Witness ==
    /\ call.op = "insert"
    /\ ninserts = 2 /\ inserted = {<<call.from, call.to>>}
    /\ nodes[call.from].downstream = <<call.to>>
    /\ nodes[call.to].upstream = <<call.from>>

\* C4: for all paths a and b that have nodes, b is in nodes[a].downstream
\* if and only if a is in nodes[b].upstream.
C4_Symmetry ==
    \A a, b \in DOMAIN nodes :
        contains(nodes[a].downstream, b) <=> contains(nodes[b].upstream, a)

\* An edge between two different paths is recorded on both of its ends.
C4_Witness ==
    /\ call.op = "insert" /\ call.from # call.to
    /\ contains(nodes[call.from].downstream, call.to)
    /\ contains(nodes[call.to].upstream, call.from)

\* C5: a query whose seed list holds a path without a node returns a
\* MissingNodeError naming a path that has no node, and a nil result.
C5_MissingNodeFailsClosed ==
    (IsQuery /\ ~SeedsHaveNodes) =>
        /\ call.err.kind = "MissingNodeError"
        /\ call.err.path \notin DOMAIN nodes
        /\ call.resultNil
        /\ call.result = <<>>

\* A query failed on its second seed after its first seed, which has
\* neighbours in the queried direction, was expanded.
C5_Witness ==
    /\ IsQuery /\ Len(call.seeds) = 2
    /\ call.seeds[1] \in DOMAIN nodes /\ call.seeds[2] \notin DOMAIN nodes
    /\ (IF call.op = "upstream" THEN nodes[call.seeds[1]].upstream
                                ELSE nodes[call.seeds[1]].downstream) # <<>>
    /\ call.err = MissingNodeError(call.seeds[2])
    /\ call.resultNil

\* C6: for paths a and b that have nodes, the set downstream([a, b]) returns
\* is the union of the sets downstream([a]) and downstream([b]) return, each
\* path listed once; likewise for upstream.
C6_MultiSeedUnion ==
    (IsQuery /\ Len(call.seeds) = 2 /\ SeedsHaveNodes) =>
        LET a == call.seeds[1]
            b == call.seeds[2]
        IN  /\ call.err = NilError
            /\ NoDup(call.result)
            /\ call.op = "downstream" =>
                  Range(call.result) = downstream(nodes, <<a>>).found
                                          \cup downstream(nodes, <<b>>).found
            /\ call.op = "upstream" =>
                  Range(call.result) = upstream(nodes, <<a>>).found
                                          \cup upstream(nodes, <<b>>).found

\* A downstream query with two seeds returned more than either seed yields
\* alone.
C6_Witness ==
    /\ call.op = "downstream" /\ Len(call.seeds) = 2 /\ SeedsHaveNodes
    /\ Range(call.result) # downstream(nodes, <<call.seeds[1]>>).found
    /\ Range(call.result) # downstream(nodes, <<call.seeds[2]>>).found

\* C7: no neighbour list holds a path twice, and every inserted edge (a, b)
\* has b exactly once in nodes[a].downstream and a exactly once in
\* nodes[b].upstream, however often it was inserted.
C7_ExactlyOnce ==
    /\ \A p \in DOMAIN nodes : NoDup(nodes[p].upstream) /\ NoDup(nodes[p].downstream)
    /\ \A e \in inserted :
          /\ e[1] \in DOMAIN nodes /\ e[2] \in DOMAIN nodes
          /\ Count(nodes[e[1]].downstream, e[2]) = 1
          /\ Count(nodes[e[2]].upstream, e[1]) = 1

\* More inserts were made than there are distinct edges, the last one a
\* repetition between two different paths.
C7_Witness ==
    /\ call.op = "insert" /\ call.from # call.to
    /\ ninserts > Cardinality(inserted)
    /\ Count(nodes[call.from].downstream, call.to) = 1

\* C8: the key set of nodes is the set of endpoints of the inserted edges,
\* every node's path field is its key, and every path in a neighbour list
\* has a node.
C8_NodeSet ==
    /\ DOMAIN nodes = Endpoints(inserted)
    /\ Cardinality(DOMAIN nodes) = Cardinality(Endpoints(inserted))
    /\ \A p \in DOMAIN nodes :
          /\ nodes[p].path = p
          /\ Range(nodes[p].upstream) \subseteq DOMAIN nodes
          /\ Range(nodes[p].downstream) \subseteq DOMAIN nodes

\* Two edges sharing an endpoint were inserted: three nodes, not four.
C8_Witness ==
    /\ call.op = "insert"
    /\ Cardinality(inserted) = 2
    /\ Cardinality(DOMAIN nodes) = 3

\* C9: a query whose seeds all have nodes returns the same set as the query
\* on any other seed list with the same paths: the list without its
\* repetitions, and the list in any other order.
C9_SeedListAsSet ==
    (IsQuery /\ SeedsHaveNodes) =>
        \A other \in SeedLists :
            Range(other) = Range(call.seeds) =>
                LET st == IF call.op = "upstream" THEN upstream(nodes, other)
                                                  ELSE downstream(nodes, other)
                IN  /\ st.pc = "break"
                    /\ call.err = NilError
                    /\ st.found = Range(call.result)

\* An upstream query with a repeated seed, and one whose second seed is an
\* ancestor of its first, returned a result that is not empty.
C9_Witness ==
    /\ call.op = "upstream" /\ Len(call.seeds) = 2 /\ SeedsHaveNodes
    /\ \/ call.seeds[1] = call.seeds[2]
       \/ call.seeds[2] \in Range(call.result)
    /\ call.result # <<>>

\* C10: on every graph built by inserts, cyclic ones and self-edges
\* included, and for every seed list, a query that has begun returns; the
\* passes through its loop number at most one per seed and one per recorded
\* edge, and the one that finds the queue empty.
C10_Terminates ==
    /\ [](run.op # "idle" =>
            run.iters <= Len(run.seeds) + Cardinality(inserted) + 1)
    /\ (run.op # "idle") ~> (run.op = "idle")

\* The loop of a query seeded on a cycle has ended with the seed itself
\* among the paths found.
C10_Witness ==
    /\ run.op # "idle" /\ run.st.pc = "break"
    /\ ~Acyclic(inserted)
    /\ Len(run.seeds) >= 1 /\ run.seeds[1] \in run.st.found
    /\ run.iters > Len(run.st.processed) + 1

\* The inserted edges in the direction the last query follows them.
DirEdges == IF call.op = "upstream" THEN Rev(inserted) ELSE inserted

\* C11 as stated: a seed is in the result of a query only if it is reachable,
\* in the queried direction, from another seed of the list.
C11_SeedOnlyViaAnotherSeed ==
    (IsQuery /\ ~call.resultNil) =>
        \A s \in Range(call.seeds) \cap Range(call.result) :
            s \in ReachFrom(DirEdges, Range(call.seeds) \ {s})

\* C11 as amended: a seed is in the result of a query only if it is
\* reachable, in the queried direction, from another seed of the list or,
\* along a cycle (a self-edge included), from itself.
C11_SeedOnlyViaSomeSeed ==
    (IsQuery /\ ~call.resultNil) =>
        \A s \in Range(call.seeds) \cap Range(call.result) :
            \/ s \in ReachFrom(DirEdges, Range(call.seeds) \ {s})
            \/ s \in ReachFrom(DirEdges, {s})

\* An upstream query on an acyclic graph returned its second seed, an
\* ancestor of its first seed, and not its first seed.
C11_Witness ==
    /\ call.op = "upstream" /\ Len(call.seeds) = 2 /\ Acyclic(inserted)
    /\ ~call.resultNil
    /\ call.seeds[2] \in Range(call.result)
    /\ call.seeds[1] \notin Range(call.result)

IsPrefix(s, t) == Len(s) <= Len(t) /\ \A i \in 1..Len(s) : s[i] = t[i]

\* The node a path has before a step, a node without neighbours when it has
\* none yet.
NodeBefore(p) == IF p \in DOMAIN nodes THEN nodes[p] ELSE NewNode(p)

\* C12: a single insert(from, to) adds at most two nodes, both among from
\* and to, removes no node and no neighbour entry, lets the downstream list
\* of from and the upstream list of to grow by at most one entry, and leaves
\* every other list and every other node as it was.
C12_InsertFrame ==
    [][ninserts' = ninserts + 1 =>
          LET from == call'.from
              to == call'.to
              new == DOMAIN nodes' \ DOMAIN nodes
          IN  /\ DOMAIN nodes \subseteq DOMAIN nodes'
              /\ new \subseteq {from, to}
              /\ Cardinality(new) <= 2
              /\ \A p \in DOMAIN nodes' :
                    /\ nodes'[p].path = NodeBefore(p).path
                    /\ IsPrefix(NodeBefore(p).upstream, nodes'[p].upstream)
                    /\ IsPrefix(NodeBefore(p).downstream, nodes'[p].downstream)
                    /\ Len(nodes'[p].upstream) <= Len(NodeBefore(p).upstream) + 1
                    /\ Len(nodes'[p].downstream) <= Len(NodeBefore(p).downstream) + 1
                    /\ p # from => nodes'[p].downstream = NodeBefore(p).downstream
                    /\ p # to => nodes'[p].upstream = NodeBefore(p).upstream
                    /\ p \notin {from, to} => nodes'[p] = nodes[p]]_vars

\* The second insert gave its from node a second downstream neighbour, a
\* node that insert created, and left the third node as it was.
C12_Witness ==
    /\ call.op = "insert" /\ ninserts = 2
    /\ Len(nodes[call.from].downstream) = 2
    /\ nodes[call.from].downstream[2] = call.to
    /\ nodes[call.to].upstream = <<call.from>>
    /\ Cardinality(DOMAIN nodes) = 3

\* The number of neighbour entries the running query has followed: those of
\* the paths it has expanded, in the direction it consults.
RECURSIVE Followed(_)
Followed(processed) ==
    IF processed = <<>>
    THEN 0
    ELSE Len(IF run.op = "upstream" THEN nodes[Head(processed)].upstream
                                    ELSE nodes[Head(processed)].downstream)
         + Followed(Tail(processed))

\* The number of paths the running query has taken off its queue: one per
\* pass, but for the pass that found the queue empty.
Dequeued == run.iters - (IF run.st.pc = "break" THEN 1 ELSE 0)

\* C13: during a query no path is expanded twice: processed holds no path
\* twice and only paths with nodes, the queue has received the seeds and the
\* neighbour entries of the expanded paths and nothing else, and these
\* entries number at most the recorded edges, so no edge is followed twice.
C13_ExpandOnce ==
    run.op # "idle" =>
        /\ NoDup(run.st.processed)
        /\ Range(run.st.processed) \subseteq DOMAIN nodes
        /\ Len(run.st.paths) + Dequeued = Len(run.seeds) + Followed(run.st.processed)
        /\ Followed(run.st.processed) <= Cardinality(inserted)

\* The loop of a query with a repeated seed has ended after expanding two
\* paths and skipping the repetition.
C13_Witness ==
    /\ run.op # "idle" /\ run.st.pc = "break"
    /\ Len(run.seeds) = 2 /\ run.seeds[1] = run.seeds[2]
    /\ Len(run.st.processed) = 2
    /\ Dequeued > Len(run.st.processed)

\* C14: insert(a, a) leaves a node a that lists a exactly once as upstream
\* and once as downstream neighbour, the only node when nothing else was
\* inserted; afterwards upstream([a]) and downstream([a]) return no error
\* and a result that contains a.
C14_SelfEdge ==
    /\ (call.op = "insert" /\ call.from = call.to) =>
          LET a == call.from
          IN  /\ a \in DOMAIN nodes
              /\ Count(nodes[a].upstream, a) = 1
              /\ Count(nodes[a].downstream, a) = 1
              /\ inserted = {<<a, a>>} =>
                    /\ DOMAIN nodes = {a}
                    /\ nodes[a] = [path |-> a, upstream |-> <<a>>, downstream |-> <<a>>]
    /\ (IsQuery /\ Len(call.seeds) = 1
            /\ <<call.seeds[1], call.seeds[1]>> \in inserted) =>
          /\ call.err = NilError
          /\ ~call.resultNil
          /\ call.seeds[1] \in Range(call.result)

\* After nothing but a self-edge on a was inserted, upstream([a]) returned
\* the list holding a alone.
C14_Witness ==
    /\ call.op = "upstream" /\ Len(call.seeds) = 1
    /\ inserted = {<<call.seeds[1], call.seeds[1]>>}
    /\ call.result = call.seeds
    /\ call.err = NilError

\* C15: the list a successful query returns holds no path twice, also when
\* a path is reachable from several seeds or along several routes.
C15_ResultUnique ==
    (IsQuery /\ ~call.resultNil) =>
        /\ NoDup(call.result)
        /\ \A p \in Range(call.result) : Count(call.result, p) = 1

\* A downstream query with two different seeds returned, once, a path that
\* is an immediate downstream neighbour of both.
C15_Witness ==
    /\ call.op = "downstream" /\ Len(call.seeds) = 2 /\ SeedsHaveNodes
    /\ call.seeds[1] # call.seeds[2]
    /\ \E p \in Range(call.result) :
          /\ contains(nodes[call.seeds[1]].downstream, p)
          /\ contains(nodes[call.seeds[2]].downstream, p)
          /\ Count(call.result, p) = 1

\* C16: a query, whether it succeeds or returns MissingNodeError, leaves the
\* node set and every neighbour list as they were, so the graph is the one
\* the inserts alone built; and the same query made again on the graph it
\* left returns the same set and the same error.
C16_QueriesReadOnly ==
    /\ [][call'.op \in {"upstream", "downstream"} => nodes' = nodes]_vars
    /\ [](IsQuery =>
            LET again == IF call.op = "upstream" THEN upstream(nodes, call.seeds)
                                                 ELSE downstream(nodes, call.seeds)
            IN  /\ again.err = call.err
                /\ again.pc = "error" <=> call.resultNil
                /\ ~call.resultNil => again.found = Range(call.result))

\* A query made after an insert failed on a seed, and the graph still holds
\* the endpoints of the inserted edges and no other node.
C16_Witness ==
    /\ IsQuery /\ call.resultNil /\ ninserts >= 1
    /\ call.err.kind = "MissingNodeError"
    /\ call.err.path \notin DOMAIN nodes
    /\ DOMAIN nodes = Endpoints(inserted)

\* C17: a query whose seeds all have nodes returns no error; a
\* MissingNodeError names a seed, one that has no node; and a query on a
\* single path that has a node but no neighbour in the queried direction
\* returns an empty, non-nil result and no error.
C17_ErrorsOnlyFromSeeds ==
    IsQuery =>
        /\ SeedsHaveNodes => (call.err = NilError /\ ~call.resultNil)
        /\ call.err.kind = "MissingNodeError" =>
              /\ call.err.path \in Range(call.seeds)
              /\ call.err.path \notin DOMAIN nodes
        /\ (/\ Len(call.seeds) = 1
            /\ call.seeds[1] \in DOMAIN nodes
            /\ (IF call.op = "upstream" THEN nodes[call.seeds[1]].upstream
                                        ELSE nodes[call.seeds[1]].downstream) = <<>>) =>
              /\ call.result = <<>>
              /\ ~call.resultNil
              /\ call.err = NilError

\* A downstream query returned without error after its traversal resolved a
\* path that was only ever inserted as the target of an edge.
C17_Witness ==
    /\ call.op = "downstream" /\ Len(call.seeds) = 1 /\ SeedsHaveNodes
    /\ call.err = NilError
    /\ \E p \in Range(call.result) :
          /\ p \notin {e[1] : e \in inserted}
          /\ nodes[p].downstream = <<>>

\* A graph with its neighbour lists read as sets.
SetView(g) ==
    [p \in DOMAIN g |-> [path |-> g[p].path,
                         upstream |-> Range(g[p].upstream),
                         downstream |-> Range(g[p].downstream)]]

\* The first seed of the last query that is no endpoint of an inserted edge.
FirstMissingSeed ==
    call.seeds[CHOOSE i \in 1..Len(call.seeds) :
                  /\ call.seeds[i] \notin Endpoints(inserted)
                  /\ \A j \in 1..(i - 1) : call.seeds[j] \in Endpoints(inserted)]

\* C18: the node set and every node's neighbour sets are those the set of
\* inserted edges gives, whatever the order and the number of the inserts;
\* two further inserts give the same sets in either order; and what a query
\* returns is given by the set of inserted edges and the seed list alone.
C18_InsertOrderIndependent ==
    /\ SetView(nodes) =
          [p \in Endpoints(inserted) |->
              [path |-> p,
               upstream |-> Succ(Rev(inserted), {p}),
               downstream |-> Succ(inserted, {p})]]
    /\ call.op \in {"new", "insert"} =>
          \A a, b, c, d \in Paths :
              SetView(insert(insert(nodes, a, b), c, d))
                  = SetView(insert(insert(nodes, c, d), a, b))
    /\ IsQuery =>
          IF Range(call.seeds) \subseteq Endpoints(inserted)
          THEN /\ call.err = NilError
               /\ Range(call.result) = ReachFrom(DirEdges, Range(call.seeds))
          ELSE /\ call.err = MissingNodeError(FirstMissingSeed)
               /\ call.resultNil

\* Two edges out of one path were inserted, the one to the greater path
\* first: the list keeps that order, which the other order of the same
\* inserts reverses.
C18_Witness ==
    /\ call.op = "insert"
    /\ \E p \in DOMAIN nodes :
          /\ Len(nodes[p].downstream) = 2
          /\ nodes[p].downstream[1] > nodes[p].downstream[2]
          /\ call.from = p /\ call.to = nodes[p].downstream[2]

\* C19: for paths x and y that have nodes, x is in the result of
\* upstream([y]) if and only if y is in the result of downstream([x]), on
\* cyclic graphs too.
C19_Duality ==
    (IsQuery /\ Len(call.seeds) = 1 /\ SeedsHaveNodes) =>
        LET y == call.seeds[1]
        IN  /\ ~call.resultNil
            /\ \A x \in DOMAIN nodes :
                  x \in Range(call.result) <=>
                      y \in (IF call.op = "upstream"
                             THEN downstream(nodes, <<x>>).found
                             ELSE upstream(nodes, <<x>>).found)

\* upstream([y]) returned a path x that is no immediate upstream neighbour
\* of y, and downstream([x]) holds y.
C19_Witness ==
    /\ call.op = "upstream" /\ Len(call.seeds) = 1 /\ SeedsHaveNodes
    /\ \E x \in Range(call.result) :
          /\ x # call.seeds[1]
          /\ ~contains(nodes[call.seeds[1]].upstream, x)
          /\ call.seeds[1] \in downstream(nodes, <<x>>).found

====
